---- MODULE Spec2Model ----
(***************************************************************************)
(* Model of run.py: the command-line program that reads a GIF, sends every *)
(* frame to the Vision API in one batch request, classifies the returned   *)
(* text annotations into the subtitle zone and the player-name zone, and   *)
(* prints the per-frame result as JSON.                                    *)
(*                                                                         *)
(* Strings are modelled as sequences of characters, so that "+=" is \o and *)
(* the empty string is << >>.  Python's 0-based indices are kept through   *)
(* the helper At.                                                          *)
(***************************************************************************)
EXTENDS Integers, Sequences, FiniteSets, TLC

VARIABLES
    pc,             \* position of the program
    gif,            \* the GIF file: [frames, truncated]
    cred_path,      \* "none" (None) or the path in use
    cred_path_list, \* the lists glob.glob returned, one per call made
    credentials,    \* "none" or the file the credentials were loaded from
    stdout,         \* what has been printed, in order
    exit,           \* how the process ended: "running", "exit(1)",
                    \* "traceback" (uncaught exception) or "end of script"
    pos,            \* read position of the cv2.VideoCapture
    request_param,  \* the list of sub-requests built so far
    sent,           \* the batch requests issued to the service, in order
    response,       \* response.responses of the batch request
    ri,             \* index (0-based) of the response being classified
    ti,             \* index (0-based) of the next text annotation of it
    subt_str,
    player_str,
    result          \* the list of (subt_str, player_str) tuples

vars == <<pc, gif, cred_path, cred_path_list, credentials, stdout, exit,
          pos, request_param, sent, response, ri, ti, subt_str, player_str,
          result>>

(***************************************************************************)
(* Bounds of the model.                                                    *)
(***************************************************************************)
MaxFrames == 3      \* longest GIF of the whole-program specification
MaxFrags == 2       \* longest annotation list of the classifier specification
MaxCredFiles == 2   \* most JSON files in ./cred

(***************************************************************************)
(* Program constants.                                                      *)
(***************************************************************************)
AREA_BOUND_SUBT == <<<<95, 143>>, <<673, 393>>>>
AREA_BOUND_PLAYER == <<<<21, 461>>, <<627, 496>>>>

\* s[i] with Python's 0-based index
At(s, i) == s[i + 1]

Pt(px, py) == [x |-> px, y |-> py]

(***************************************************************************)
(* The zone tests of the classification loop.                              *)
(***************************************************************************)
\* variant: the left bound of the subtitle zone taken as inclusive
InSubtInclusive(vertices) ==
    /\ At(vertices, 0).x >= At(At(AREA_BOUND_SUBT, 0), 0)
    /\ At(vertices, 0).y > At(At(AREA_BOUND_SUBT, 0), 1)
    /\ At(vertices, 1).x < At(At(AREA_BOUND_SUBT, 1), 0)
    /\ At(vertices, 1).y < At(At(AREA_BOUND_SUBT, 1), 1)

\* variant: the bottom-right bound tested on vertex 2
InSubtBottomRight(vertices) ==
    /\ At(vertices, 0).x > At(At(AREA_BOUND_SUBT, 0), 0)
    /\ At(vertices, 0).y > At(At(AREA_BOUND_SUBT, 0), 1)
    /\ At(vertices, 2).x < At(At(AREA_BOUND_SUBT, 1), 0)
    /\ At(vertices, 2).y < At(At(AREA_BOUND_SUBT, 1), 1)

InSubt(vertices) ==
    /\ At(vertices, 0).x > At(At(AREA_BOUND_SUBT, 0), 0)
    /\ At(vertices, 0).y > At(At(AREA_BOUND_SUBT, 0), 1)
    /\ At(vertices, 1).x < At(At(AREA_BOUND_SUBT, 1), 0)
    /\ At(vertices, 1).y < At(At(AREA_BOUND_SUBT, 1), 1)

\* variant: the top bound of the player zone taken as inclusive
InPlayerInclusive(vertices) ==
    /\ At(vertices, 0).x > At(At(AREA_BOUND_PLAYER, 0), 0)
    /\ At(vertices, 0).y >= At(At(AREA_BOUND_PLAYER, 0), 1)
    /\ At(vertices, 1).x < At(At(AREA_BOUND_PLAYER, 1), 0)
    /\ At(vertices, 1).y < At(At(AREA_BOUND_PLAYER, 1), 1)

InPlayer(vertices) ==
    /\ At(vertices, 0).x > At(At(AREA_BOUND_PLAYER, 0), 0)
    /\ At(vertices, 0).y > At(At(AREA_BOUND_PLAYER, 0), 1)
    /\ At(vertices, 1).x < At(At(AREA_BOUND_PLAYER, 1), 0)
    /\ At(vertices, 1).y < At(At(AREA_BOUND_PLAYER, 1), 1)

\* variant: only polygons of fewer than 4 vertices are skipped
SkippedBelowFour(vertices) == Len(vertices) < 4

\* len(vertices) != 4: continue
Skipped(vertices) == Len(vertices) # 4

\* variant: the subtitle text is put in front of what was accumulated
ClassifyTextPrepends(subt, player, text) ==
    IF Skipped(text.vertices) THEN <<subt, player>>
    ELSE IF InSubt(text.vertices) THEN <<text.description \o subt, player>>
    ELSE IF InPlayer(text.vertices) THEN <<subt, text.description>>
    ELSE <<subt, player>>

\* variant: the player name is accumulated like the subtitle
ClassifyTextAccumulatesPlayer(subt, player, text) ==
    IF Skipped(text.vertices) THEN <<subt, player>>
    ELSE IF InSubt(text.vertices) THEN <<subt \o text.description, player>>
    ELSE IF InPlayer(text.vertices) THEN <<subt, player \o text.description>>
    ELSE <<subt, player>>

\* variant: the player test is an "if" of its own instead of an "elif"
ClassifyTextBothBranches(subt, player, text) ==
    IF Skipped(text.vertices) THEN <<subt, player>>
    ELSE <<IF InSubt(text.vertices) THEN subt \o text.description ELSE subt,
           IF InPlayer(text.vertices) THEN text.description ELSE player>>

\* the body of "for text in air.text_annotations" applied to one annotation:
\* the new values of (subt_str, player_str)
ClassifyText(subt, player, text) ==
    IF Skipped(text.vertices) THEN <<subt, player>>
    ELSE IF InSubt(text.vertices) THEN <<subt \o text.description, player>>
    ELSE IF InPlayer(text.vertices) THEN <<subt, text.description>>
    ELSE <<subt, player>>

(***************************************************************************)
(* The collaborators the program calls.                                    *)
(***************************************************************************)
\* cv2.imencode(".jpg", frame): the frame wrapped in its JPEG encoding
Imencode(frame) == [format |-> "jpg", pixels |-> frame]

\* the sub-request built for one frame
SubRequest(frame) ==
    [image |-> [content |-> Imencode(frame)],
     features |-> <<"DOCUMENT_TEXT_DETECTION">>,
     language_hints |-> <<"ja">>]

\* client.batch_annotate_images: one response per sub-request, in submission
\* order; the annotations of a response are the text its image shows
BatchAnnotateImages(requests) ==
    [i \in 1..Len(requests) |->
        [text_annotations |-> requests[i].image.content.pixels.text]]

UsageMessage == "Make sure to put GCP credential JSON file in the 'cred' directory."

\* the dictionary handed to json.dumps
ResultDict(res) ==
    [result |-> [i \in 1..Len(res) |->
        [subtitle |-> At(At(res, i - 1), 0),
         playerName |-> At(At(res, i - 1), 1)]]]

(***************************************************************************)
(* The main block.                                                         *)
(***************************************************************************)
\* the values args.cred can take: None, or the path given with -c
CredArgs == {"none", "given.json"}

\* what ./cred can hold: the list glob.glob returns for it
CredFileNames == <<"cred/1.json", "cred/2.json", "cred/3.json", "cred/4.json">>
CredDirs == {SubSeq(CredFileNames, 1, n) : n \in 0..MaxCredFiles}

\* variant: the last file found is used
LastFound(list) == At(list, Len(list) - 1)

\* cred_path = cred_path_list[0]
FirstFound(list) == At(list, 0)

ParseArgs ==
    /\ pc = "main"
    /\ \E arg \in CredArgs : cred_path' = arg
    /\ pc' = "resolve"
    /\ UNCHANGED <<gif, cred_path_list, credentials, stdout, exit, pos,
                   request_param, sent, response, ri, ti, subt_str,
                   player_str, result>>

\* cred_path is not None: the glob block is skipped
CredGiven ==
    /\ pc = "resolve"
    /\ cred_path # "none"
    /\ pc' = "load"
    /\ UNCHANGED <<gif, cred_path, cred_path_list, credentials, stdout, exit,
                   pos, request_param, sent, response, ri, ti, subt_str,
                   player_str, result>>

\* cred_path is None and glob finds nothing: usage message, exit(1)
GlobEmpty ==
    /\ pc = "resolve"
    /\ cred_path = "none"
    /\ \E found \in CredDirs :
        /\ Len(found) = 0
        /\ cred_path_list' = Append(cred_path_list, found)
    /\ stdout' = Append(stdout, [kind |-> "text", body |-> UsageMessage])
    /\ exit' = "exit(1)"
    /\ pc' = "exited"
    /\ UNCHANGED <<gif, cred_path, credentials, pos, request_param, sent,
                   response, ri, ti, subt_str, player_str, result>>

\* cred_path is None and glob finds files: the first one is used
GlobFound ==
    /\ pc = "resolve"
    /\ cred_path = "none"
    /\ \E found \in CredDirs :
        /\ Len(found) # 0
        /\ cred_path_list' = Append(cred_path_list, found)
        /\ cred_path' = FirstFound(found)
    /\ pc' = "load"
    /\ UNCHANGED <<gif, credentials, stdout, exit, pos, request_param, sent,
                   response, ri, ti, subt_str, player_str, result>>

\* an exception nobody catches: traceback, no further statement runs
Uncaught ==
    /\ exit' = "traceback"
    /\ pc' = "exited"

\* service_account.Credentials.from_service_account_file(cred_path)
LoadCredentials ==
    /\ pc = "load"
    /\ credentials' = cred_path
    /\ pc' = "call"
    /\ UNCHANGED <<gif, cred_path, cred_path_list, stdout, exit, pos,
                   request_param, sent, response, ri, ti, subt_str,
                   player_str, result>>

\* the file is missing or is no service-account file
LoadCredentialsRaises ==
    /\ pc = "load"
    /\ Uncaught
    /\ UNCHANGED <<gif, cred_path, cred_path_list, credentials, stdout, pos,
                   request_param, sent, response, ri, ti, subt_str,
                   player_str, result>>

(***************************************************************************)
(* retrieve_text_from_gif.                                                 *)
(***************************************************************************)
\* client creation, cv2.VideoCapture(gif_path), request_param = []
OpenGif ==
    /\ pc = "call"
    /\ pos' = 0
    /\ request_param' = <<>>
    /\ pc' = "read"
    /\ UNCHANGED <<gif, cred_path, cred_path_list, credentials,
                   stdout, exit, sent, response, ri, ti, subt_str,
                   player_str, result>>

\* gif.read() returns a frame: its sub-request is appended
ReadFrame ==
    /\ pc = "read"
    /\ pos < Len(gif.frames)
    /\ request_param' = Append(request_param, SubRequest(At(gif.frames, pos)))
    /\ pos' = pos + 1
    /\ UNCHANGED <<pc, gif, cred_path, cred_path_list,
                   credentials, stdout, exit, sent, response, ri, ti,
                   subt_str, player_str, result>>

\* cv2.imencode raises on the frame just read
ImencodeRaises ==
    /\ pc = "read"
    /\ pos < Len(gif.frames)
    /\ Uncaught
    /\ UNCHANGED <<gif, cred_path, cred_path_list, credentials,
                   stdout, pos, request_param, sent, response, ri, ti,
                   subt_str, player_str, result>>

\* gif.read() returns ret = False: no frame left, or none that decodes
ReadEnd ==
    /\ pc = "read"
    /\ pos = Len(gif.frames)
    /\ pc' = "request"
    /\ UNCHANGED <<gif, cred_path, cred_path_list, credentials,
                   stdout, exit, pos, request_param, sent, response, ri,
                   ti, subt_str, player_str, result>>

\* response = client.batch_annotate_images(requests=request_param); result = []
BatchRequest ==
    /\ pc = "request"
    /\ sent' = Append(sent, request_param)
    /\ response' = BatchAnnotateImages(request_param)
    /\ result' = <<>>
    /\ ri' = 0
    /\ pc' = "responses"
    /\ UNCHANGED <<gif, cred_path, cred_path_list, credentials,
                   stdout, exit, pos, request_param, ti, subt_str,
                   player_str>>

\* the call raises (authentication, quota, service error)
BatchRequestRaises ==
    /\ pc = "request"
    /\ sent' = Append(sent, request_param)
    /\ Uncaught
    /\ UNCHANGED <<gif, cred_path, cred_path_list, credentials,
                   stdout, pos, request_param, response, ri, ti, subt_str,
                   player_str, result>>

\* variant: the two strings are initialised once, before the loop
NextResponseKeepsStrings ==
    /\ pc = "responses"
    /\ ri < Len(response)
    /\ ti' = 0
    /\ pc' = "texts"
    /\ UNCHANGED <<gif, cred_path, cred_path_list, credentials, stdout, exit,
                   pos, request_param, sent, response, ri, subt_str,
                   player_str, result>>

\* for air in response.responses: subt_str = "", player_str = ""
NextResponse ==
    /\ pc = "responses"
    /\ ri < Len(response)
    /\ subt_str' = <<>>
    /\ player_str' = <<>>
    /\ ti' = 0
    /\ pc' = "texts"
    /\ UNCHANGED <<gif, cred_path, cred_path_list, credentials,
                   stdout, exit, pos, request_param, sent, response, ri,
                   result>>

\* for text in air.text_annotations: one pass of the loop body
NextText ==
    /\ pc = "texts"
    /\ ti < Len(At(response, ri).text_annotations)
    /\ LET new == ClassifyText(subt_str, player_str,
                               At(At(response, ri).text_annotations, ti))
       IN /\ subt_str' = At(new, 0)
          /\ player_str' = At(new, 1)
    /\ ti' = ti + 1
    /\ UNCHANGED <<pc, gif, cred_path, cred_path_list,
                   credentials, stdout, exit, pos, request_param, sent,
                   response, ri, result>>

\* result.append((subt_str, player_str))
AppendResult ==
    /\ pc = "texts"
    /\ ti = Len(At(response, ri).text_annotations)
    /\ result' = Append(result, <<subt_str, player_str>>)
    /\ ri' = ri + 1
    /\ pc' = "responses"
    /\ UNCHANGED <<gif, cred_path, cred_path_list, credentials,
                   stdout, exit, pos, request_param, sent, response, ti,
                   subt_str, player_str>>

\* return result
Return ==
    /\ pc = "responses"
    /\ ri = Len(response)
    /\ pc' = "format"
    /\ UNCHANGED <<gif, cred_path, cred_path_list, credentials,
                   stdout, exit, pos, request_param, sent, response, ri,
                   ti, subt_str, player_str, result>>

\* print(json.dumps(result_dict, ...)) and the normal end of the script
PrintJson ==
    /\ pc = "format"
    /\ stdout' = Append(stdout, [kind |-> "json", body |-> ResultDict(result)])
    /\ exit' = "end of script"
    /\ pc' = "exited"
    /\ UNCHANGED <<gif, cred_path, cred_path_list, credentials,
                   pos, request_param, sent, response, ri, ti, subt_str,
                   player_str, result>>

(***************************************************************************)
(* Inputs.  A frame is described by the text annotations the recognizer    *)
(* reads in it; an annotation is its description and the vertices of its   *)
(* bounding polygon.                                                       *)
(***************************************************************************)
Texts == {<<"a">>, <<"b">>}

Annotation(t, vs) == [description |-> t, vertices |-> vs]

\* all lists over S of length at most n
RECURSIVE ListsUpTo(_, _)
ListsUpTo(S, n) ==
    IF n = 0 THEN {<<>>}
    ELSE LET shorter == ListsUpTo(S, n - 1)
         IN shorter \cup {Append(l, e) : l \in {m \in shorter : Len(m) = n - 1}, e \in S}

\* vertices 0 and 1: inside the subtitle zone, inside the player zone,
\* passing both tests (vertex 1 above vertex 0), on the subtitle bounds
CorePairs ==
    {<<Pt(96, 144), Pt(672, 392)>>,
     <<Pt(22, 462), Pt(626, 495)>>,
     <<Pt(96, 462), Pt(626, 392)>>,
     <<Pt(95, 143), Pt(673, 393)>>}

\* vertices 2 and 3: inside the subtitle zone, outside both zones
Tails ==
    {<<Pt(650, 220), Pt(100, 220)>>,
     <<Pt(700, 500), Pt(0, 500)>>}

CoreQuads ==
    {Annotation(t, pair \o tail) : t \in Texts, pair \in CorePairs, tail \in Tails}

\* polygons of 0, 3 and 5 vertices, lying in one zone or the other
NonQuads ==
    {Annotation(<<"a">>, <<>>),
     Annotation(<<"b">>, <<Pt(96, 144), Pt(672, 392), Pt(650, 220)>>),
     Annotation(<<"a">>, <<Pt(22, 462), Pt(626, 495), Pt(626, 490),
                           Pt(22, 490), Pt(22, 470)>>)}

CoreAnnotations == CoreQuads \cup NonQuads

\* every combination of coordinates on and next to the zone bounds
GridX0 == {21, 22, 95, 96}
GridY0 == {143, 144, 461, 462}
GridX1 == {626, 627, 672, 673}
GridY1 == {392, 393, 495, 496}
GridQuads ==
    {Annotation(<<"a">>, <<Pt(x0, y0), Pt(x1, y1), Pt(x1, y1), Pt(x0, y1)>>) :
        x0 \in GridX0, y0 \in GridY0, x1 \in GridX1, y1 \in GridY1}

Frame(annotations) == [text |-> annotations]

\* the frames of the end-to-end example, one with several annotations, and
\* one without text
SampleFrames ==
    {Frame(<<Annotation(<<"a">>, <<Pt(100, 150), Pt(650, 200),
                                   Pt(650, 220), Pt(100, 220)>>)>>),
     Frame(<<Annotation(<<"b">>, <<Pt(30, 470), Pt(600, 470),
                                   Pt(600, 490), Pt(30, 490)>>)>>),
     Frame(<<Annotation(<<"b">>, <<Pt(100, 150), Pt(650, 200),
                                   Pt(650, 220), Pt(100, 220)>>),
             Annotation(<<"a">>, <<Pt(30, 470), Pt(600, 470),
                                   Pt(600, 490), Pt(30, 490)>>),
             Annotation(<<"a">>, <<Pt(100, 230), Pt(650, 230),
                                   Pt(650, 260), Pt(100, 260)>>)>>),
     Frame(<<>>)}

\* a GIF file: the frames that decode, and whether undecodable data follows
\* them (a truncated or corrupt file) instead of the end of the animation
Gif(frames, truncated) == [frames |-> frames, truncated |-> truncated]

InitProgram ==
    /\ pc = "main"
    /\ cred_path = "none"
    /\ cred_path_list = <<>>
    /\ credentials = "none"
    /\ stdout = <<>>
    /\ exit = "running"
    /\ pos = 0
    /\ request_param = <<>>
    /\ sent = <<>>
    /\ response = <<>>
    /\ ri = 0
    /\ ti = 0
    /\ subt_str = <<>>
    /\ player_str = <<>>
    /\ result = <<>>

\* the whole program on GIFs of up to MaxFrames frames
Init ==
    /\ InitProgram
    /\ gif \in {Gif(fs, tr) : fs \in ListsUpTo(SampleFrames, MaxFrames),
                              tr \in BOOLEAN}

\* the classifier on every annotation list of up to MaxFrags annotations
InitClassifier ==
    /\ InitProgram
    /\ gif \in {Gif(<<Frame(l)>>, FALSE) : l \in ListsUpTo(CoreAnnotations, MaxFrags)}

\* the zone tests on every polygon around the zone bounds
InitZones ==
    /\ InitProgram
    /\ gif \in {Gif(<<Frame(<<q>>)>>, FALSE) : q \in GridQuads}

Next ==
    \/ ParseArgs
    \/ CredGiven
    \/ GlobEmpty
    \/ GlobFound
    \/ LoadCredentials
    \/ LoadCredentialsRaises
    \/ OpenGif
    \/ ReadFrame
    \/ ImencodeRaises
    \/ ReadEnd
    \/ BatchRequest
    \/ BatchRequestRaises
    \/ NextResponse
    \/ NextText
    \/ AppendResult
    \/ Return
    \/ PrintJson

Spec == Init /\ [][Next]_vars
SpecClassifier == InitClassifier /\ [][Next]_vars
SpecZones == InitZones /\ [][Next]_vars

(***************************************************************************)
(* Vocabulary of the properties.                                           *)
(***************************************************************************)
\* the annotations received for frame k (1-based), in received order
Received(k) == response[k].text_annotations

IsQuad(a) == Len(a.vertices) = 4
PassesSubt(a) == IsQuad(a) /\ InSubt(a.vertices)
GoesToPlayer(a) == IsQuad(a) /\ ~InSubt(a.vertices) /\ InPlayer(a.vertices)

RECURSIVE Concat(_)
Concat(strings) ==
    IF Len(strings) = 0 THEN <<>> ELSE Head(strings) \o Concat(Tail(strings))

Descriptions(annots) == [i \in 1..Len(annots) |-> annots[i].description]

\* the subtitle the specification gives to an annotation list
SubtitleOf(annots) == Concat(Descriptions(SelectSeq(annots, PassesSubt)))

\* the player name the specification gives to an annotation list
PlayerOf(annots) ==
    LET matches == SelectSeq(annots, GoesToPlayer)
    IN IF Len(matches) = 0 THEN <<>> ELSE matches[Len(matches)].description

\* the program has printed its JSON and ended normally
Finished == pc = "exited" /\ exit = "end of script"

JsonPrinted == {i \in 1..Len(stdout) : stdout[i].kind = "json"}

\* the annotations of the frame being classified that the loop has passed
Passed == SubSeq(Received(ri + 1), 1, ti)

(***************************************************************************)
(* C2: the subtitle of a frame is the concatenation, in received order, of *)
(* the descriptions of exactly the 4-vertex annotations that pass the      *)
(* subtitle test, and the empty string when none passes.  It holds of the  *)
(* accumulator after every pass of the loop and of every appended entry.   *)
(***************************************************************************)
C2_SubtitleIsConcatenation ==
    /\ pc = "texts" => subt_str = SubtitleOf(Passed)
    /\ \A k \in 1..Len(result) : At(result[k], 0) = SubtitleOf(Received(k))

\* a finished frame with two subtitle annotations "b" then "a"
C2_Witness ==
    /\ Finished
    /\ Len(result) = 1
    /\ Len(SelectSeq(Received(1), PassesSubt)) = 2
    /\ At(result[1], 0) = <<"b", "a">>

(***************************************************************************)
(* C3: the playerName of a frame is the description of the last annotation *)
(* (in received order) that is a 4-vertex annotation failing the subtitle  *)
(* test and passing the player test; earlier matches are overwritten, and  *)
(* it is the empty string when there is no such annotation.                *)
(***************************************************************************)
C3_PlayerIsLastMatch ==
    /\ pc = "texts" => player_str = PlayerOf(Passed)
    /\ \A k \in 1..Len(result) : At(result[k], 1) = PlayerOf(Received(k))

\* a finished frame with two player annotations, "a" then "b": "b" survives
C3_Witness ==
    /\ Finished
    /\ Len(result) = 1
    /\ Len(Received(1)) = 2
    /\ GoesToPlayer(Received(1)[1]) /\ Received(1)[1].description = <<"a">>
    /\ GoesToPlayer(Received(1)[2]) /\ Received(1)[2].description = <<"b">>
    /\ At(result[1], 1) = <<"b">>

\* the fold of the loop body over an annotation list, from given strings
RECURSIVE FrameResultFrom(_, _, _)
FrameResultFrom(subt, player, annots) ==
    IF Len(annots) = 0 THEN <<subt, player>>
    ELSE LET new == ClassifyText(subt, player, Head(annots))
         IN FrameResultFrom(At(new, 0), At(new, 1), Tail(annots))

\* the (subt_str, player_str) tuple the loop produces for an annotation list
FrameResult(annots) == FrameResultFrom(<<>>, <<>>, annots)

\* strictly inside the rectangle (left, top)-(right, bottom), on vertices 0, 1
StrictlyInside(a, left, top, right, bottom) ==
    /\ a.vertices[1].x > left
    /\ a.vertices[1].y > top
    /\ a.vertices[2].x < right
    /\ a.vertices[2].y < bottom

\* one of the four compared coordinates lies exactly on a bound
OnBound(a, left, top, right, bottom) ==
    \/ a.vertices[1].x = left
    \/ a.vertices[1].y = top
    \/ a.vertices[2].x = right
    \/ a.vertices[2].y = bottom

(***************************************************************************)
(* C4: the containment test is strict on all four compared coordinates.    *)
(* For a frame with a single 4-vertex annotation, the annotation reaches   *)
(* the subtitle only if it lies strictly inside (95,143)-(673,393) and the *)
(* player name only if it lies strictly inside (21,461)-(627,496); with a  *)
(* coordinate exactly on a bound of a zone it is never classified into     *)
(* that zone.                                                              *)
(***************************************************************************)
C4_ContainmentIsStrict ==
    \A k \in 1..Len(result) :
        (Len(Received(k)) = 1 /\ IsQuad(Received(k)[1])) =>
            LET a == Received(k)[1]
            IN /\ At(result[k], 0) # <<>> => StrictlyInside(a, 95, 143, 673, 393)
               /\ At(result[k], 1) # <<>> => StrictlyInside(a, 21, 461, 627, 496)
               /\ OnBound(a, 95, 143, 673, 393) => At(result[k], 0) = <<>>
               /\ OnBound(a, 21, 461, 627, 496) => At(result[k], 1) = <<>>

\* a finished frame whose annotation has vertex 0 on the left bound of the
\* subtitle zone and is otherwise inside it: nothing is classified
C4_Witness ==
    /\ Finished
    /\ Len(result) = 1
    /\ Len(Received(1)) = 1
    /\ Received(1)[1].vertices[1] = Pt(95, 144)
    /\ Received(1)[1].vertices[2] = Pt(672, 392)
    /\ result[1] = <<<<>>, <<>>>>

(***************************************************************************)
(* C5: an annotation whose polygon has other than 4 vertices never changes *)
(* subtitle or playerName: the entry of every frame is the one the loop    *)
(* produces for its annotation list with those annotations removed, and    *)
(* the pass of the loop over such an annotation leaves both strings alone. *)
(***************************************************************************)
C5_NonQuadsContributeNothing ==
    /\ \A k \in 1..Len(result) :
           result[k] = FrameResult(SelectSeq(Received(k), IsQuad))
    /\ pc = "texts" =>
           <<subt_str, player_str>> = FrameResult(SelectSeq(Passed, IsQuad))

\* a finished frame: a subtitle annotation "b", then a 5-vertex polygon "a"
\* lying in the player zone; the entry is ("b", "")
C5_Witness ==
    /\ Finished
    /\ Len(result) = 1
    /\ Len(Received(1)) = 2
    /\ PassesSubt(Received(1)[1])
    /\ Len(Received(1)[2].vertices) = 5
    /\ InPlayer(Received(1)[2].vertices)
    /\ result[1] = <<<<"b">>, <<>>>>

\* the pass of the loop over the annotation at index ti
ClassifyingStep == pc = "texts" /\ ti' = ti + 1

(***************************************************************************)
(* C6: the subtitle test is applied first and the two zones are mutually   *)
(* exclusive per annotation: no pass of the loop changes both strings, and *)
(* for a 4-vertex annotation satisfying both tests the pass appends the    *)
(* description to the subtitle and leaves playerName unchanged.            *)
(***************************************************************************)
C6_FirstMatchWins ==
    [][ClassifyingStep =>
        LET a == At(Received(ri + 1), ti)
        IN /\ ~(subt_str' # subt_str /\ player_str' # player_str)
           /\ (IsQuad(a) /\ InSubt(a.vertices) /\ InPlayer(a.vertices)) =>
                  /\ subt_str' = subt_str \o a.description
                  /\ player_str' = player_str]_vars

\* after a player annotation "b", an annotation "a" satisfying both tests
\* has been passed: subtitle "a", playerName still "b"
C6_Witness ==
    /\ pc = "texts"
    /\ ti = 2
    /\ GoesToPlayer(Passed[1]) /\ Passed[1].description = <<"b">>
    /\ IsQuad(Passed[2]) /\ Passed[2].description = <<"a">>
    /\ InSubt(Passed[2].vertices) /\ InPlayer(Passed[2].vertices)
    /\ subt_str = <<"a">>
    /\ player_str = <<"b">>

\* both zone tests, as the loop computes them
PassesBothTests(a) == InSubt(a.vertices) /\ InPlayer(a.vertices)

(***************************************************************************)
(* C7, as stated: with the fixed zones no 4-vertex annotation satisfies    *)
(* both the subtitle test and the player test.                             *)
(***************************************************************************)
C7_NoAnnotationPassesBoth ==
    \A k \in 1..Len(response) : \A i \in 1..Len(Received(k)) :
        IsQuad(Received(k)[i]) => ~PassesBothTests(Received(k)[i])

(***************************************************************************)
(* C7, amended: a 4-vertex annotation satisfies both tests exactly when    *)
(* vertex 0 is right of x = 95 and below y = 461 and vertex 1 is left of   *)
(* x = 627 and above y = 393; so none whose vertex 1 is not above its      *)
(* vertex 0 satisfies both, and one whose vertex 1 lies above vertex 0     *)
(* can, although the zones do not overlap.                                 *)
(***************************************************************************)
C7_BothOnlyWithVertex1AboveVertex0 ==
    \A k \in 1..Len(response) : \A i \in 1..Len(Received(k)) :
        LET a == Received(k)[i]
        IN IsQuad(a) =>
            /\ PassesBothTests(a) <=> StrictlyInside(a, 95, 461, 627, 393)
            /\ a.vertices[2].y >= a.vertices[1].y => ~PassesBothTests(a)

\* a finished frame whose annotation has vertex 0 at (96,462) and vertex 1
\* at (626,392): it passes both tests and is classified as subtitle
C7_Witness ==
    /\ Finished
    /\ Len(result) = 1
    /\ Len(Received(1)) = 1
    /\ Received(1)[1].vertices[1] = Pt(96, 462)
    /\ Received(1)[1].vertices[2] = Pt(626, 392)
    /\ PassesBothTests(Received(1)[1])
    /\ result[1] = <<Received(1)[1].description, <<>>>>

\* the annotation with vertices 2 and 3 of a 4-vertex polygon moved outside
\* both zones
MoveTail(a) ==
    IF IsQuad(a)
    THEN [a EXCEPT !.vertices = <<a.vertices[1], a.vertices[2], Pt(700, 500), Pt(0, 500)>>]
    ELSE a

MoveTails(annots) == [i \in 1..Len(annots) |-> MoveTail(annots[i])]

(***************************************************************************)
(* C10: the classification of a 4-vertex annotation depends only on        *)
(* vertices 0 and 1: the entry of every frame is the one the loop produces *)
(* for the same list with vertices 2 and 3 of every annotation moved to    *)
(* fixed points outside both zones, so two lists that differ only in       *)
(* vertices 2 and 3 give the same entry.                                   *)
(***************************************************************************)
C10_OnlyVertices0And1Matter ==
    \A k \in 1..Len(result) : result[k] = FrameResult(MoveTails(Received(k)))

\* a finished frame with two subtitle annotations that differ in vertices 2
\* and 3 only (inside the zone, outside both zones), both classified
C10_Witness ==
    /\ Finished
    /\ Len(result) = 1
    /\ Len(Received(1)) = 2
    /\ Received(1)[1] # Received(1)[2]
    /\ MoveTail(Received(1)[1]) = MoveTail(Received(1)[2])
    /\ PassesSubt(Received(1)[1])
    /\ result[1] = <<<<"a", "a">>, <<>>>>

\* the number of frames the GIF yields, and the annotations frame k shows
FrameCount == Len(gif.frames)
Shown(k) == gif.frames[k].text

\* the entry the specification gives to frame k, from its annotations alone
EntryOf(k) == <<SubtitleOf(Shown(k)), PlayerOf(Shown(k))>>

(***************************************************************************)
(* C1: over N >= 0 frames the result list has exactly N entries, entry i   *)
(* is the classification of the annotations of frame i alone (nothing of   *)
(* another frame reaches it), and the printed JSON lists the entries in    *)
(* the same order.                                                         *)
(***************************************************************************)
C1_OneEntryPerFrameInOrder ==
    /\ Len(result) <= FrameCount
    /\ \A k \in 1..Len(result) : result[k] = EntryOf(k)
    /\ pc = "format" => Len(result) = FrameCount
    /\ \A i \in JsonPrinted :
        LET out == stdout[i].body.result
        IN /\ Len(out) = FrameCount
           /\ \A k \in 1..Len(out) :
                out[k] = [subtitle |-> At(EntryOf(k), 0),
                          playerName |-> At(EntryOf(k), 1)]

\* the end-to-end example: a subtitle frame then a player frame, printed as
\* [("a", ""), ("", "b")]
C1_Witness ==
    /\ Finished
    /\ FrameCount = 2
    /\ result = << <<<<"a">>, <<>>>>, <<<<>>, <<"b">>>> >>
    /\ JsonPrinted = {1}
    /\ stdout[1].body.result[1].subtitle = <<"a">>
    /\ stdout[1].body.result[2].playerName = <<"b">>

UsageExit == exit = "exit(1)"

\* the flag was omitted and the one lookup made found no file
OmittedAndNoneFound == cred_path = "none" /\ cred_path_list = << <<>> >>

(***************************************************************************)
(* C8: the program ends by exit(1) exactly when the credentials flag is    *)
(* omitted and the lookup finds no JSON file; then it has printed the      *)
(* usage message and nothing else, and has loaded no credentials, read no  *)
(* frame and sent no request.  In every other case the step that resolves  *)
(* the path goes on to credential loading, with the first file found when  *)
(* the flag is omitted, and without any lookup when the flag is given.     *)
(***************************************************************************)
C8_UsageExitOnlyWithoutCredentials ==
    [][/\ UsageExit' <=> OmittedAndNoneFound'
       /\ UsageExit' =>
            /\ pc' = "exited"
            /\ Len(stdout') = 1
            /\ stdout'[1].kind = "text" /\ stdout'[1].body = UsageMessage
            /\ credentials' = "none"
            /\ pos' = 0 /\ request_param' = <<>>
            /\ sent' = <<>> /\ response' = <<>>
       /\ (pc = "resolve" /\ ~UsageExit') => (pc' = "load" /\ exit' = "running")
       /\ (pc = "resolve" /\ cred_path = "none" /\ pc' = "load") =>
            /\ Len(cred_path_list') = 1
            /\ cred_path' = cred_path_list'[1][1]
       /\ cred_path' = "given.json" => cred_path_list' = <<>>
       /\ pc' \in {"call", "read", "request", "responses", "texts", "format"} =>
            credentials' = cred_path'
      ]_vars

\* the flag omitted, ./cred empty: usage message, exit(1), nothing loaded
C8_Witness ==
    /\ UsageExit
    /\ pc = "exited"
    /\ cred_path = "none"
    /\ Len(cred_path_list) = 1 /\ Len(cred_path_list[1]) = 0
    /\ Len(stdout) = 1 /\ stdout[1].body = UsageMessage
    /\ credentials = "none"

\* one batch request at most, issued after the last read, with one
\* sub-request per frame in frame order
OneBatchRequestForAllFrames ==
    /\ Len(sent) <= 1
    /\ Len(sent) = 1 =>
        /\ pos = FrameCount
        /\ Len(sent[1]) = FrameCount
        /\ \A k \in 1..FrameCount : sent[1][k] = SubRequest(gif.frames[k])

\* JSON is printed only after the request succeeded and every frame read
\* was classified, and never after an uncaught exception
OutputOnlyAfterSuccess ==
    /\ JsonPrinted # {} =>
        /\ Len(sent) = 1
        /\ Len(response) = FrameCount
        /\ Len(result) = FrameCount
        /\ exit = "end of script"
    /\ exit = "traceback" => JsonPrinted = {}

\* when the data after the frames read does not decode, no entry is printed
NoOutputWhenDecodingFails ==
    gif.truncated => \A i \in JsonPrinted : Len(stdout[i].body.result) = 0

(***************************************************************************)
(* C9, as stated: exactly one batch request is issued, after the last      *)
(* frame has been read, with one sub-request per frame in frame order, and *)
(* never again; and if frame decoding, the request or anything before the  *)
(* output fails, the run ends without printing any result entry.           *)
(***************************************************************************)
C9_OneRequestAndNoPartialOutput ==
    /\ OneBatchRequestForAllFrames
    /\ OutputOnlyAfterSuccess
    /\ NoOutputWhenDecodingFails

====
